---- MODULE Spec2Model ----
(***************************************************************************)
(* A model of trx_file_zarr.py: the TrxFile container (positions, offsets, *)
(* per-point, per-streamline, group and per-group arrays held in a zarr    *)
(* hierarchy) and its operations append, select, prune_metadata, is_empty, *)
(* close, the schema-clone constructor, load and concatenate.              *)
(*                                                                         *)
(* An array is modelled by the sequence of its rows (a row is a natural    *)
(* number standing for the row's content); a zarr group of arrays is a     *)
(* function from the keys present to their arrays.                         *)
(***************************************************************************)
EXTENDS Integers, Sequences, FiniteSets, TLC

\* ------------------------------------------------------------------ bounds
MaxLoadStreamlines == 2   \* streamlines of a loaded container
MaxStreamlines == 2       \* append is explored while the sum stays within it
MaxSel == 2               \* length of the index list handed to select
MaxGroupLen == 1          \* members of a group of a loaded container
MaxPerGroupRows == 2      \* append is explored while per-group arrays stay within it
MaxLap == 1               \* an index handed to select is within MaxLap * 2^32 of an int32
MaxCloses == 3            \* close is explored up to this many finalize calls

\* ------------------------------------------------------- program constants
\* np.array(indices, np.uint32) turns a negative index into 2^32 minus its
\* size; Wrapped stands for every such value (all exceed any row count here)
Wrapped == 2147483647

VARIABLES trx, app_trx, last
vars == <<trx, app_trx, last>>

\* ------------------------------------------------------------ array helpers
RECURSIVE SeqSum(_)
SeqSum(s) == IF s = <<>> THEN 0 ELSE s[1] + SeqSum(Tail(s))

RECURSIVE Flatten(_)
Flatten(ss) == IF ss = <<>> THEN <<>> ELSE ss[1] \o Flatten(Tail(ss))

Min(a, b) == IF a <= b THEN a ELSE b

\* array + scalar
Shift(s, d) == [i \in 1..Len(s) |-> s[i] + d]

\* numpy basic slice data[lo : lo+n] (0-based lo), clipped to the array
Slice(data, lo, n) ==
    LET hi == Min(lo + n, Len(data))
    IN  IF lo >= hi THEN <<>> ELSE SubSeq(data, lo + 1, hi)

\* the keys of a zarr group that satisfy Keep, with their arrays
Restrict(f, keep) == [k \in keep |-> f[k]]

\* --------------------------------------------------------- pure functions
\* intersect_groups(group, indices); index is the permutation np.argsort
\* returned (1-based here): any permutation that sorts indices, since the
\* default sort kind is not stable.
IsArgsort(index, indices) ==
    /\ DOMAIN index = 1..Len(indices)
    /\ \A i \in 1..Len(indices) : index[i] \in 1..Len(indices)
    /\ \A i, j \in 1..Len(indices) : i # j => index[i] # index[j]
    /\ \A i \in 1..(Len(indices) - 1) : indices[index[i]] <= indices[index[i + 1]]

Argsorts(indices) ==
    {index \in [1..Len(indices) -> 1..Len(indices)] : IsArgsort(index, indices)}

\* np.searchsorted(sorted_x, g) then np.take(index, ., mode="clip"), 1-based
yindexOf(g, indices, index) ==
    LET sorted_index == Cardinality({i \in 1..Len(indices) : indices[index[i]] < g})
    IN  index[Min(sorted_index + 1, Len(indices))]

RECURSIVE intersect_groups(_, _, _)
intersect_groups(group, indices, index) ==
    IF group = <<>> THEN <<>>
    ELSE LET y == yindexOf(group[1], indices, index)
             rest == intersect_groups(Tail(group), indices, index)
         IN  IF indices[y] # group[1] THEN rest ELSE <<y - 1>> \o rest

\* compute_lengths(offsets, nb_points)
compute_lengths(offsets, nb_points) ==
    IF Len(offsets) > 1
    THEN [i \in 1..Len(offsets) |->
            IF i < Len(offsets) THEN offsets[i + 1] - offsets[i]
            ELSE nb_points - offsets[Len(offsets)]]
    ELSE IF Len(offsets) = 1 THEN <<nb_points>>
    ELSE <<0>>

\* _check_same_keys(key_1, key_2): the sorted key lists are equal
check_same_keys(key_1, key_2) == key_1 = key_2

\* (mutant) the view lists the selected streamlines last to first
SeqViewReversed(offsets, lengths, indices) ==
    [k \in 1..Len(indices) |->
        [offset |-> offsets[indices[Len(indices) - k + 1] + 1],
         length |-> lengths[indices[Len(indices) - k + 1] + 1]]]

\* ArraySequence[indices]: the view's offsets and lengths (indices 0-based)
SeqView(offsets, lengths, indices) ==
    [k \in 1..Len(indices) |->
        [offset |-> offsets[indices[k] + 1], length |-> lengths[indices[k] + 1]]]

\* ArraySequence.copy() as get_data() runs it on a view: every block
\* data[offset : offset+length] is assigned into a block of `length` rows; a
\* block of one row is broadcast, any other size mismatch raises.
ChunkFits(data, v) ==
    LET chunk == Slice(data, v.offset, v.length)
    IN  Len(chunk) = v.length \/ Len(chunk) = 1

ChunkOf(data, v) ==
    LET chunk == Slice(data, v.offset, v.length)
    IN  IF Len(chunk) = v.length THEN chunk ELSE [i \in 1..v.length |-> chunk[1]]

GatherOk(data, view) == \A k \in 1..Len(view) : ChunkFits(data, view[k])

Gather(data, view) == Flatten([k \in 1..Len(view) |-> ChunkOf(data, view[k])])

\* (mutant) np.cumsum(lengths): the offsets are the ends of the streamlines
NewOffsetsEnds(lengths) ==
    [k \in 1..Len(lengths) |-> SeqSum(SubSeq(lengths, 1, k))]

\* np.cumsum(lengths[:-1]) behind a leading 0
NewOffsets(lengths) ==
    [k \in 1..Len(lengths) |-> SeqSum(SubSeq(lengths, 1, k - 1))]

\* ------------------------------------------------------------ the container
\* TrxFile(): blank space attributes, no rows, four empty sub-groups, on a
\* temporary store; finalized counts the finalize calls (rmdir, close, clear)
\* the container has made on its store
Blank ==
    [space |-> 0, store |-> "temp", finalized |-> 0,
     nb_points |-> 0, nb_streamlines |-> 0,
     pos |-> <<>>, off |-> <<>>,
     dpp |-> <<>>, dps |-> <<>>, grp |-> <<>>, dpg |-> <<>>]

\* TrxFile(init_as=c): the key sets of c with zero rows
InitAs(c) ==
    [space |-> c.space, store |-> "temp", finalized |-> 0,
     nb_points |-> 0, nb_streamlines |-> 0,
     pos |-> <<>>, off |-> <<>>,
     dpp |-> [k \in DOMAIN c.dpp |-> <<>>],
     dps |-> [k \in DOMAIN c.dps |-> <<>>],
     grp |-> [k \in DOMAIN c.grp |-> <<>>],
     dpg |-> [g \in {h \in DOMAIN c.dpg : DOMAIN c.dpg[h] # {}} |->
                [m \in DOMAIN c.dpg[g] |-> <<>>]]]

\* (mutant) the groups and per-group arrays are not pruned
prune_metadataArraysOnly(c, force) ==
    LET keep(f) == {k \in DOMAIN f : ~(Len(f[k]) = 0 \/ force)}
    IN  [c EXCEPT !.dpp = Restrict(c.dpp, keep(c.dpp)),
                  !.dps = Restrict(c.dps, keep(c.dps))]

\* (mutant) force is not looked at
prune_metadataUnforced(c, force) ==
    LET keep(f) == {k \in DOMAIN f : Len(f[k]) # 0}
        grp2 == Restrict(c.grp, keep(c.grp))
    IN  [c EXCEPT
           !.dpp = Restrict(c.dpp, keep(c.dpp)),
           !.dps = Restrict(c.dps, keep(c.dps)),
           !.grp = grp2,
           !.dpg = [g \in DOMAIN c.dpg \cap DOMAIN grp2 |->
                      Restrict(c.dpg[g], keep(c.dpg[g]))]]

\* prune_metadata(force)
prune_metadata(c, force) ==
    LET keep(f) == {k \in DOMAIN f : ~(Len(f[k]) = 0 \/ force)}
        grp2 == Restrict(c.grp, keep(c.grp))
    IN  [c EXCEPT
           !.dpp = Restrict(c.dpp, keep(c.dpp)),
           !.dps = Restrict(c.dps, keep(c.dps)),
           !.grp = grp2,
           !.dpg = [g \in DOMAIN c.dpg \cap DOMAIN grp2 |->
                      Restrict(c.dpg[g], keep(c.dpg[g]))]]

\* is_empty(): prunes, then looks at what is left
is_empty(c) ==
    LET p == prune_metadata(c, FALSE)
    IN  [trx |-> p,
         empty |-> ~(\/ DOMAIN p.dpp # {}
                     \/ DOMAIN p.dps # {}
                     \/ DOMAIN p.grp # {}
                     \/ DOMAIN p.dpg # {}
                     \/ Len(p.pos) # 0
                     \/ Len(p.off) # 0)]

\* ------------------------------------------------------------------ append
\* the five error outcomes of append, in the order the code tests them
AppendErrors ==
    {"SchemaMismatch", "ImmutableBackendError", "ConflictingPolicy",
     "KeySetMismatch", "AmbiguousGroupPolicy"}

\* (mutant) the offsets of app_trx are appended as they are
GrowPositionsUnshifted(self, app) ==
    [self EXCEPT !.pos = self.pos \o app.pos,
                 !.off = self.off \o app.off]

\* self._zpos.append(app_trx._zpos); self._zoff.append(app_trx._zoff + nb_points)
GrowPositions(self, app) ==
    [self EXCEPT !.pos = self.pos \o app.pos,
                 !.off = self.off \o Shift(app.off, self.nb_points)]

\* (mutant) nb_streamlines is not updated
GrowCountsPointsOnly(self, app) ==
    [self EXCEPT !.nb_points = self.nb_points + app.nb_points]

\* self.nb_points += ...; self.nb_streamlines += ...
GrowCounts(self, app) ==
    [self EXCEPT !.nb_points = self.nb_points + app.nb_points,
                 !.nb_streamlines = self.nb_streamlines + app.nb_streamlines]

\* (mutant) the per-point arrays are left as they are
GrowPerPointSkipped(self, app) == self

\* for every key of self: self[key].append(app_trx[key])
GrowPerPoint(self, app) ==
    [self EXCEPT !.dpp = [k \in DOMAIN self.dpp |-> self.dpp[k] \o app.dpp[k]]]

GrowPerStreamline(self, app) ==
    [self EXCEPT !.dps = [k \in DOMAIN self.dps |-> self.dps[k] \o app.dps[k]]]

\* the groups of self that app_trx has too grow by app_trx's members plus
\* self.nb_streamlines, read after GrowCounts has added to it
GrowGroups(self, app) ==
    [self EXCEPT !.grp = [k \in DOMAIN self.grp |->
        IF k \in DOMAIN app.grp
        THEN self.grp[k] \o Shift(app.grp[k], self.nb_streamlines)
        ELSE self.grp[k]]]

\* keep_first_dpg: the per-group arrays of self that app_trx has too grow
GrowPerGroup(self, app, keep_first_dpg) ==
    IF ~keep_first_dpg THEN self
    ELSE [self EXCEPT !.dpg = [g \in DOMAIN self.dpg |->
            [m \in DOMAIN self.dpg[g] |->
                IF g \in DOMAIN app.dpg /\ m \in DOMAIN app.dpg[g]
                THEN self.dpg[g][m] \o app.dpg[g][m]
                ELSE self.dpg[g][m]]]]

\* the growth phase, self and app_trx as the checks left them
Grow(self, app, keep_first_dpg) ==
    LET grown == GrowCounts(GrowPositions(self, app), app)
        e == is_empty(app)
    IN  [status |-> "ok",
         self |-> IF e.empty THEN grown
                  ELSE GrowPerGroup(
                         GrowGroups(
                           GrowPerStreamline(GrowPerPoint(grown, e.trx), e.trx),
                           e.trx),
                         e.trx, keep_first_dpg),
         app |-> e.trx]

\* (mutant) no store is taken for an archive
isZipStoreNever(self) == FALSE

\* isinstance(self.storage, zarr.storage.ZipStore)
isZipStore(self) == self.store = "zip"

\* self.append(app_trx, delete_dpg, keep_first_dpg): the outcome, and both
\* containers as the call leaves them
append(self, app, delete_dpg, keep_first_dpg) ==
    IF self.space # app.space
    THEN [status |-> "SchemaMismatch", self |-> self, app |-> app]
    ELSE IF isZipStore(self)
    THEN [status |-> "ImmutableBackendError", self |-> self, app |-> app]
    ELSE IF delete_dpg /\ keep_first_dpg
    THEN [status |-> "ConflictingPolicy", self |-> self, app |-> app]
    ELSE
    LET e1 == is_empty(self)
        e2 == is_empty(app)
        \* `not self.is_empty() and not app_trx.is_empty()` short-circuits
        s1 == e1.trx
        a1 == IF e1.empty THEN app ELSE e2.trx
        both == ~e1.empty /\ ~e2.empty
    IN  IF both /\ ~check_same_keys(DOMAIN s1.dpp, DOMAIN a1.dpp)
        THEN [status |-> "KeySetMismatch", self |-> s1, app |-> a1]
        ELSE IF both /\ ~check_same_keys(DOMAIN s1.dps, DOMAIN a1.dps)
        THEN [status |-> "KeySetMismatch", self |-> s1, app |-> a1]
        ELSE IF ~(delete_dpg \/ keep_first_dpg)
                /\ (DOMAIN s1.dpg # {} \/ DOMAIN s1.dpg # {})
        THEN [status |-> "AmbiguousGroupPolicy", self |-> s1, app |-> a1]
        ELSE Grow(s1, a1, keep_first_dpg)

\* ------------------------------------------------------------------ select
\* np.array(indices, np.uint32)
AsUint32(indices) ==
    [k \in 1..Len(indices) |-> IF indices[k] < 0 THEN Wrapped ELSE indices[k]]

SeqMax(s) == CHOOSE m \in {s[i] : i \in 1..Len(s)} : \A i \in 1..Len(s) : s[i] <= m
SeqMin(s) == CHOOSE m \in {s[i] : i \in 1..Len(s)} : \A i \in 1..Len(s) : m <= s[i]

InvalidIndices(self, indices) ==
    Len(indices) # 0
    /\ (SeqMax(indices) > self.nb_streamlines - 1 \/ SeqMin(indices) < 0)

\* self.streamlines: offsets and lengths of the positions
Streamlines(self) ==
    [offsets |-> self.off, lengths |-> compute_lengths(self.off, self.nb_points)]

\* np.array(self._zdps[key])[indices]
RowsOk(data, indices) == \A k \in 1..Len(indices) : indices[k] < Len(data)
Rows(data, indices) == [k \in 1..Len(indices) |-> data[indices[k] + 1]]

\* (mutant) keep_group is not looked at
SelectGroupsAlways(self, indices, index, keep_group) ==
    [k \in {h \in DOMAIN self.grp :
               Len(intersect_groups(self.grp[h], indices, index)) # 0} |->
        intersect_groups(self.grp[k], indices, index)]

\* the groups of new_trx after the keep_group loop
SelectGroups(self, indices, index, keep_group) ==
    IF ~keep_group THEN [k \in DOMAIN self.grp |-> <<>>]
    ELSE [k \in {h \in DOMAIN self.grp :
                   Len(intersect_groups(self.grp[h], indices, index)) # 0} |->
            intersect_groups(self.grp[k], indices, index)]

\* the per-group arrays of new_trx: those new_trx was created with, the ones
\* under a group new_trx still has grown by the arrays of self
SelectPerGroup(self, new_trx) ==
    [g \in DOMAIN new_trx.dpg |->
        [m \in DOMAIN new_trx.dpg[g] |->
            IF g \in DOMAIN new_trx.grp
            THEN new_trx.dpg[g][m] \o self.dpg[g][m]
            ELSE new_trx.dpg[g][m]]]

\* new_trx.nb_streamlines = len(new_trx._zoff); nb_points = len(new_trx._zpos)
SelectCounts(new_trx) ==
    [new_trx EXCEPT !.nb_streamlines = Len(new_trx.off),
                    !.nb_points = Len(new_trx.pos)]

\* self.select(indices, keep_group): the outcome and the container returned
select(self, indices0, index, keep_group) ==
    LET indices == AsUint32(indices0)
        new_trx == InitAs(self)
        tmp == Streamlines(self)
        view == SeqView(tmp.offsets, tmp.lengths, indices)
    IN  IF InvalidIndices(self, indices)
        THEN [status |-> "IndexOutOfRange", trx |-> Blank]
        ELSE IF Len(indices) = 0
        THEN [status |-> "ok", trx |-> prune_metadata(new_trx, FALSE)]
        ELSE IF ~GatherOk(self.pos, view)
                \/ (\E k \in DOMAIN self.dpp : ~GatherOk(self.dpp[k], view))
        THEN [status |-> "BroadcastError", trx |-> Blank]
        ELSE IF \E k \in DOMAIN self.dps : ~RowsOk(self.dps[k], indices)
        THEN [status |-> "IndexError", trx |-> Blank]
        ELSE
        LET t1 == [new_trx EXCEPT
                     !.pos = Gather(self.pos, view),
                     !.off = NewOffsets([k \in 1..Len(view) |-> view[k].length]),
                     !.dpp = [k \in DOMAIN self.dpp |-> Gather(self.dpp[k], view)],
                     !.dps = [k \in DOMAIN self.dps |-> Rows(self.dps[k], indices)],
                     !.grp = SelectGroups(self, indices, index, keep_group)]
            t2 == [t1 EXCEPT !.dpg = SelectPerGroup(self, t1)]
        IN  [status |-> "ok", trx |-> prune_metadata(SelectCounts(t2), FALSE)]

\* ------------------------------------------------------- loaded containers
\* What load() can find in a store: a valid container.  Row r of positions
\* holds r, row r of a per-point array 10 + r, row i of a per-streamline
\* array 20 + i, and a per-group array one row, 30.  Streamline i of a stored
\* container has i points, so that no two streamlines of it look alike.
LenSeqs == {[i \in 1..n |-> i] : n \in 0..MaxLoadStreamlines}

GroupSeqs(n) == UNION {[1..k -> 0..(n - 1)] : k \in 1..MaxGroupLen}

Stored(lens, hasDpp, hasDps, grp, hasDpg, space) ==
    LET np == SeqSum(lens)
    IN  [space |-> space, store |-> "dir", finalized |-> 0,
         nb_points |-> np, nb_streamlines |-> Len(lens),
         pos |-> [r \in 1..np |-> r],
         off |-> NewOffsets(lens),
         dpp |-> [k \in (IF hasDpp THEN {"x"} ELSE {}) |-> [r \in 1..np |-> 10 + r]],
         dps |-> [k \in (IF hasDps THEN {"s"} ELSE {}) |-> [i \in 1..Len(lens) |-> 20 + i]],
         grp |-> [k \in (IF grp # <<>> THEN {"g"} ELSE {}) |-> grp],
         dpg |-> [g \in (IF grp # <<>> /\ hasDpg THEN {"g"} ELSE {}) |->
                    [m \in {"m"} |-> <<30>>]]]

\* load(path): a directory, or a .zip / .trx archive
LoadStores == {"dir", "zip"}

\* two data sets: tractograms with per-point and per-streamline data in the
\* blank space, and tractograms with groups and per-group data in another
DataFiles ==
    {Stored(lens, hasDpp, hasDps, <<>>, FALSE, 0) :
        lens \in LenSeqs, hasDpp \in BOOLEAN, hasDps \in BOOLEAN}

GroupFiles ==
    UNION {{Stored(lens, FALSE, FALSE, grp, hasDpg, 1) :
              grp \in {<<>>} \cup GroupSeqs(Len(lens)), hasDpg \in BOOLEAN} :
           lens \in LenSeqs}

\* a container saved right after TrxFile(init_as=c): key sets with zero rows
SchemaFiles == {[InitAs(c) EXCEPT !.store = "dir"] : c \in DataFiles \cup GroupFiles}

Loadable == DataFiles \cup GroupFiles \cup SchemaFiles

\* ----------------------------------------------------------------- actions
\* trx is the container the operations are called on (self); app_trx is the
\* container last handed to append, as the call left it; last names
\* the last call, its arguments and its outcome.
NoOp ==
    [op |-> "init", status |-> "ok",
     delete_dpg |-> FALSE, keep_first_dpg |-> FALSE,
     indices |-> <<>>, keep_group |-> FALSE, force |-> FALSE, laps |-> <<>>]

Init ==
    /\ trx = Blank
    /\ app_trx = Blank
    /\ last = NoOp

\* trx = TrxFile()
NewStep ==
    /\ trx' = Blank
    /\ app_trx' = Blank
    /\ last' = [NoOp EXCEPT !.op = "new"]

\* trx = load(path), the store at path holding container c
LoadStep(c, store) ==
    /\ trx' = [c EXCEPT !.store = store]
    /\ app_trx' = Blank
    /\ last' = [NoOp EXCEPT !.op = "load"]

\* trx = TrxFile(init_as=trx)
CloneStep ==
    /\ trx' = InitAs(trx)
    /\ app_trx' = Blank
    /\ last' = [NoOp EXCEPT !.op = "clone"]

\* trx.append(c, delete_dpg, keep_first_dpg), c a container just loaded
Explored(c) ==
    /\ c.nb_streamlines <= MaxStreamlines
    /\ \A g \in DOMAIN c.dpg : \A m \in DOMAIN c.dpg[g] :
          Len(c.dpg[g][m]) <= MaxPerGroupRows

AppendStep(c, delete_dpg, keep_first_dpg) ==
    /\ LET r == append(trx, c, delete_dpg, keep_first_dpg)
       IN  /\ Explored(r.self)
           /\ trx' = r.self
           /\ app_trx' = r.app
           /\ last' = [NoOp EXCEPT !.op = "append", !.status = r.status,
                                   !.delete_dpg = delete_dpg,
                                   !.keep_first_dpg = keep_first_dpg]

\* the index lists tried on a container of n streamlines: n is out of range
IndexLists(n) == UNION {[1..k -> 0..n] : k \in 0..MaxSel}

\* trx = trx.select(indices, keep_group); a failed call returns nothing
SelectStep(indices, keep_group) ==
    \E index \in Argsorts(AsUint32(indices)) :
        LET r == select(trx, indices, index, keep_group)
        IN  /\ trx' = IF r.status = "ok" THEN r.trx ELSE trx
            /\ app_trx' = Blank
            /\ last' = [NoOp EXCEPT !.op = "select", !.status = r.status,
                                    !.indices = indices, !.keep_group = keep_group]

\* trx.prune_metadata(force)
PruneStep(force) ==
    /\ trx' = prune_metadata(trx, force)
    /\ app_trx' = Blank
    /\ last' = [NoOp EXCEPT !.op = "prune", !.force = force]

Next ==
    \/ NewStep
    \/ \E c \in Loadable : \E store \in LoadStores : LoadStep(c, store)
    \/ CloneStep
    \/ \E c \in Loadable : \E dd, kf \in BOOLEAN : AppendStep(c, dd, kf)
    \/ \E kg \in BOOLEAN :
          \E indices \in IndexLists(trx.nb_streamlines) : SelectStep(indices, kg)
    \/ \E force \in BOOLEAN : PruneStep(force)

Spec == Init /\ [][Next]_vars

\* ============================================================== properties
InRange(c) ==
    \A k \in DOMAIN c.grp : \A j \in 1..Len(c.grp[k]) :
        0 <= c.grp[k][j] /\ c.grp[k][j] < c.nb_streamlines

\* C1: after any sequence of operations every value stored in every group of
\* a container lies in [0, nb_streamlines) of that container.
GroupIndicesInRange == InRange(trx) /\ InRange(app_trx)

\* C2: a successful append with a non-empty source leaves in every group that
\* target and source both have the target's members followed by the source's
\* members, each increased by the target's nb_streamlines before the call.
\* (Stated for the groups of the target that hold members.)
GroupsShiftedByOldCount ==
    [][\A c \in Loadable : \A dd, kf \in BOOLEAN :
          (AppendStep(c, dd, kf) /\ last'.status = "ok" /\ ~is_empty(c).empty)
          => \A k \in DOMAIN trx.grp \cap DOMAIN c.grp :
                Len(trx.grp[k]) > 0
                => /\ k \in DOMAIN trx'.grp
                   /\ trx'.grp[k] = trx.grp[k] \o Shift(c.grp[k], trx.nb_streamlines)]_vars

Members(group) == {group[j] : j \in 1..Len(group)}

Occurrences(group, indices) ==
    {k \in 0..(Len(indices) - 1) : indices[k + 1] \in Members(group)}

\* C3: select with keep_group gives every group one entry per position k of
\* indices whose streamline indices[k] is a member of the group, the entry
\* being k; a group none of whose members is selected is not in the output.
OneEntryPerOccurrence ==
    [][\A indices \in IndexLists(trx.nb_streamlines) :
          (SelectStep(indices, TRUE) /\ last'.status = "ok")
          => \A g \in DOMAIN trx.grp :
                LET want == Occurrences(trx.grp[g], indices)
                IN  IF want = {} THEN g \notin DOMAIN trx'.grp
                    ELSE /\ g \in DOMAIN trx'.grp
                         /\ Len(trx'.grp[g]) = Cardinality(want)
                         /\ Members(trx'.grp[g]) = want]_vars

HoldsPerGroupData(c) ==
    \E g \in DOMAIN c.dpg : \E m \in DOMAIN c.dpg[g] : Len(c.dpg[g][m]) > 0

\* C4: append with neither delete_dpg nor keep_first_dpg does not go through
\* when the target or the source holds per-group data (here: a per-group
\* array with rows): unless an earlier check fails it fails
\* AmbiguousGroupPolicy.
NeitherPolicyIsAmbiguous ==
    [][\A c \in Loadable :
          (AppendStep(c, FALSE, FALSE) /\ (HoldsPerGroupData(trx) \/ HoldsPerGroupData(c)))
          => last'.status \in AppendErrors]_vars

\* C5: after a successful append with delete_dpg (and not keep_first_dpg) the
\* target holds no per-group array.
DeletePolicyDropsPerGroup ==
    [][\A c \in Loadable :
          (AppendStep(c, TRUE, FALSE) /\ last'.status = "ok")
          => \A g \in DOMAIN trx'.dpg : DOMAIN trx'.dpg[g] = {}]_vars

\* C6: an append that fails one of its five precondition checks leaves the
\* target and the source exactly as they were, zero-row entries included.
FailedAppendMutatesNothing ==
    [][\A c \in Loadable : \A dd, kf \in BOOLEAN :
          (AppendStep(c, dd, kf) /\ last'.status \in AppendErrors)
          => trx' = trx /\ app_trx' = c]_vars

CountsMatch(c) == Len(c.off) = c.nb_streamlines /\ Len(c.pos) = c.nb_points

\* C7: every container has as many offsets as nb_streamlines says and as
\* many positions as nb_points says.
CountsMatchArrays == CountsMatch(trx) /\ CountsMatch(app_trx)

\* the case of C7: an append has grown the container to two streamlines
CountsMatchWitness ==
    /\ last.op = "append" /\ last.status = "ok"
    /\ ~is_empty(app_trx).empty
    /\ trx.nb_streamlines = 2 /\ trx.nb_points >= 2

DataDims(c) ==
    /\ \A k \in DOMAIN c.dpp : Len(c.dpp[k]) \in {0, c.nb_points}
    /\ \A k \in DOMAIN c.dps : Len(c.dps[k]) \in {0, c.nb_streamlines}

\* C8: every per-point array has 0 or nb_points rows and every per-streamline
\* array 0 or nb_streamlines rows.
DataDimsMatchCounts == DataDims(trx) /\ DataDims(app_trx)

\* the case of C8: an append has grown a per-point and a per-streamline array
DataDimsWitness ==
    /\ last.op = "append" /\ last.status = "ok"
    /\ ~is_empty(app_trx).empty
    /\ DOMAIN trx.dpp # {} /\ DOMAIN trx.dps # {}
    /\ trx.nb_streamlines > app_trx.nb_streamlines
    /\ \A k \in DOMAIN trx.dpp : Len(trx.dpp[k]) = trx.nb_points
    /\ \A k \in DOMAIN trx.dps : Len(trx.dps[k]) = trx.nb_streamlines

Identity(n) == [k \in 1..n |-> k - 1]

SameData(a, b) ==
    /\ a.pos = b.pos /\ a.off = b.off
    /\ a.dpp = b.dpp /\ a.dps = b.dps
    /\ a.nb_streamlines = b.nb_streamlines /\ a.nb_points = b.nb_points

NoZeroRows(c) ==
    /\ \A k \in DOMAIN c.dpp : Len(c.dpp[k]) > 0
    /\ \A k \in DOMAIN c.dps : Len(c.dps[k]) > 0

\* C10 as stated: select(range(nb_streamlines)) returns the positions,
\* offsets, per-point and per-streamline arrays (under the same keys) and
\* counts of the container it is called on, for every container.
IdentitySelectReproduces ==
    [][\A kg \in BOOLEAN :
          SelectStep(Identity(trx.nb_streamlines), kg)
          => last'.status = "ok" /\ SameData(trx', trx)]_vars

\* C10: for a container none of whose per-point and per-streamline arrays
\* has zero rows, select(range(nb_streamlines)) succeeds and returns the
\* positions, offsets, per-point and per-streamline arrays (under the same
\* keys) and counts of the container it is called on.
IdentitySelectReproducesRows ==
    [][(/\ last'.op = "select"
        /\ last'.indices = Identity(trx.nb_streamlines)
        /\ NoZeroRows(trx)
        /\ SelectStep(last'.indices, last'.keep_group))
       => last'.status = "ok" /\ SameData(trx', trx)]_vars

\* the case of C10: the identity selection of two streamlines with data
IdentitySelectWitness ==
    /\ last.op = "select" /\ last.status = "ok"
    /\ last.indices = <<0, 1>>
    /\ trx.nb_streamlines = 2 /\ trx.nb_points = 3
    /\ DOMAIN trx.dpp # {} /\ DOMAIN trx.dps # {}

\* ------------------------------------------------- append, three containers
\* trx is A, app_trx is B; one step appends A, B and C (default policy) in
\* both groupings and leaves (A.B).C in trx and A.(B.C) in app_trx.
InitAssoc ==
    /\ trx \in {[c EXCEPT !.store = store] : c \in Loadable, store \in LoadStores}
    /\ app_trx \in Loadable
    /\ last = NoOp

AssociateStep(c) ==
    /\ last.op = "init"
    /\ LET ab == append(trx, app_trx, FALSE, TRUE)
           ab_c == append(ab.self, c, FALSE, TRUE)
           bc == append(app_trx, c, FALSE, TRUE)
           a_bc == append(trx, bc.self, FALSE, TRUE)
       IN  /\ trx' = ab_c.self
           /\ app_trx' = a_bc.self
           /\ last' = [NoOp EXCEPT
                  !.op = "associate",
                  !.status = IF ab.status # "ok" THEN ab.status
                             ELSE IF ab_c.status # "ok" THEN ab_c.status
                             ELSE IF bc.status # "ok" THEN bc.status
                             ELSE a_bc.status]

NextAssoc == \E c \in Loadable : AssociateStep(c)

SpecAssoc == InitAssoc /\ [][NextAssoc]_vars

SameArrays(a, b) ==
    /\ SameData(a, b)
    /\ compute_lengths(a.off, a.nb_points) = compute_lengths(b.off, b.nb_points)

\* schema-compatible: equal space attributes and the same per-point and
\* per-streamline keys
Alike(a, b) ==
    /\ a.space = b.space
    /\ DOMAIN a.dpp = DOMAIN b.dpp /\ DOMAIN a.dps = DOMAIN b.dps

\* C9: for schema-compatible A, B and C (A and B on stores that can grow)
\* both groupings succeed and give the same positions, offsets, lengths,
\* per-point and per-streamline arrays and counts.
AppendAssociative ==
    [][\A c \in Loadable :
          (/\ AssociateStep(c)
           /\ trx.store # "zip" /\ app_trx.store # "zip"
           /\ Alike(trx, app_trx) /\ Alike(app_trx, c))
          => last'.status = "ok" /\ SameArrays(trx', app_trx')]_vars

\* ------------------------------------------------- select, order and groups
\* length and rows of streamline i (0-based) of container c in a per-point
\* array data of c
LengthOf(c, i) == compute_lengths(c.off, c.nb_points)[i + 1]

BlockOf(c, data, i) == Slice(data, c.off[i + 1], LengthOf(c, i))

InRangeList(c, indices) ==
    \A k \in 1..Len(indices) : 0 <= indices[k] /\ indices[k] < c.nb_streamlines

\* new is old.select(indices): streamline k of new is streamline indices[k]
\* of old
SelectedInOrder(old, new, indices) ==
    /\ new.nb_streamlines = Len(indices)
    /\ Len(new.off) = Len(indices)
    /\ \A k \in 1..Len(indices) :
          /\ new.off[k] = SeqSum([j \in 1..(k - 1) |-> LengthOf(old, indices[j])])
          /\ BlockOf(new, new.pos, k - 1) = BlockOf(old, old.pos, indices[k])
          /\ \A x \in DOMAIN old.dpp :
                /\ x \in DOMAIN new.dpp
                /\ BlockOf(new, new.dpp[x], k - 1) = BlockOf(old, old.dpp[x], indices[k])
          /\ \A x \in DOMAIN old.dps :
                /\ x \in DOMAIN new.dps
                /\ new.dps[x][k] = old.dps[x][indices[k] + 1]

\* C11: select with a non-empty in-range index list (any order, duplicates
\* allowed) succeeds and returns len(indices) streamlines, the k-th with the
\* points, per-point rows and per-streamline row of input streamline
\* indices[k], at offsets that are the running sums of the selected lengths.
SelectKeepsGivenOrder ==
    [][(/\ last'.op = "select"
        /\ Len(last'.indices) > 0
        /\ InRangeList(trx, last'.indices)
        /\ SelectStep(last'.indices, last'.keep_group))
       => /\ last'.status = "ok"
          /\ SelectedInOrder(trx, trx', last'.indices)]_vars

\* the case of C11: two streamlines with per-point and per-streamline data
\* were selected in descending order
SelectKeepsGivenOrderWitness ==
    /\ last.op = "select" /\ last.status = "ok"
    /\ last.indices = <<1, 0>>
    /\ trx.nb_streamlines = 2 /\ trx.off = <<0, 2>> /\ trx.pos = <<2, 3, 1>>
    /\ DOMAIN trx.dpp # {} /\ DOMAIN trx.dps # {}

\* new is old.select(indices, keep_group): the groups and per-group arrays
GroupsFollowSelection(old, new, indices, keep_group) ==
    /\ DOMAIN new.grp \subseteq DOMAIN old.grp
    /\ \A g \in DOMAIN old.grp :
          g \in DOMAIN new.grp
          <=> (keep_group /\ \E k \in 1..Len(indices) : indices[k] \in Members(old.grp[g]))
    /\ \A g \in DOMAIN new.grp : Len(new.grp[g]) > 0
    /\ DOMAIN new.dpg \subseteq DOMAIN new.grp
    /\ \A g \in DOMAIN new.dpg : g \in DOMAIN old.dpg /\ new.dpg[g] = old.dpg[g]
    /\ \A g \in DOMAIN new.grp \cap DOMAIN old.dpg : g \in DOMAIN new.dpg

\* C12: a group is in the container select returns iff keep_group is set and
\* one of its members occurs in indices; no group of the output is empty;
\* the output has per-group arrays only under its groups, and they are the
\* input's per-group arrays of these groups, as they were.
SelectedGroupsSurvive ==
    [][(/\ last'.op = "select"
        /\ last'.status = "ok"
        /\ SelectStep(last'.indices, last'.keep_group))
       => GroupsFollowSelection(trx, trx', last'.indices, last'.keep_group)]_vars

\* the case of C12: a group and its per-group array came through a select
SelectedGroupsSurviveWitness ==
    /\ last.op = "select" /\ last.status = "ok"
    /\ last.keep_group /\ last.indices = <<1>>
    /\ DOMAIN trx.grp = {"g"} /\ DOMAIN trx.dpg = {"g"}
    /\ trx.dpg["g"]["m"] = <<30>>

\* a container without streamlines, points and entries of any kind
Bare(c) ==
    /\ c.nb_streamlines = 0 /\ c.nb_points = 0
    /\ c.pos = <<>> /\ c.off = <<>>
    /\ DOMAIN c.dpp = {} /\ DOMAIN c.dps = {}
    /\ DOMAIN c.grp = {} /\ DOMAIN c.dpg = {}

\* C13: select with an empty index list returns a container with no
\* streamlines, no points, empty positions and offsets and no per-point,
\* per-streamline, group or per-group entry, whatever the input holds.
SelectNothingIsBare ==
    (last.op = "select" /\ last.status = "ok" /\ last.indices = <<>>) => Bare(trx)

\* the case of C13: nothing was selected from a container of the data set
\* with groups
SelectNothingIsBareWitness ==
    /\ last.op = "select" /\ last.status = "ok" /\ last.indices = <<>>
    /\ last.keep_group
    /\ trx.space = 1 /\ trx.store = "temp"

\* ------------------------------------------- select, indices of any size
\* The integers of the model are those of an int32.  An index handed to
\* select is any Python integer (or an int64 of an array): it is written
\* laps[k] * 2^32 + indices[k], indices[k] an int32.  np.array(., np.uint32)
\* keeps the value modulo 2^32, so the multiple of 2^32 is lost in the cast.
WideAsUint32(laps, indices) == AsUint32(indices)

WideLists(n) ==
    UNION {[laps : [1..k -> (0 - MaxLap)..MaxLap], indices : [1..k -> (0 - 1)..n]] :
           k \in 0..MaxSel}

InitWide ==
    /\ trx \in {[c EXCEPT !.store = store] : c \in Loadable, store \in LoadStores}
    /\ app_trx = Blank
    /\ last = NoOp

\* trx = trx.select(laps * 2^32 + indices, keep_group), once
SelectWideStep(laps, indices, keep_group) ==
    /\ last.op = "init"
    /\ \E index \in Argsorts(WideAsUint32(laps, indices)) :
        LET r == select(trx, WideAsUint32(laps, indices), index, keep_group)
        IN  /\ trx' = IF r.status = "ok" THEN r.trx ELSE trx
            /\ app_trx' = Blank
            /\ last' = [NoOp EXCEPT !.op = "select", !.status = r.status,
                                    !.indices = indices, !.keep_group = keep_group,
                                    !.laps = laps]

NextWide ==
    \E kg \in BOOLEAN : \E w \in WideLists(trx.nb_streamlines) :
        SelectWideStep(w.laps, w.indices, kg)

SpecSelectWide == InitWide /\ [][NextWide]_vars

\* one of the values laps[k] * 2^32 + indices[k] is outside [0, nb_streamlines)
OutsideRange(c, laps, indices) ==
    \E k \in 1..Len(indices) :
        laps[k] # 0 \/ indices[k] < 0 \/ indices[k] >= c.nb_streamlines

\* C14: select fails IndexOutOfRange and leaves the container as it was for
\* every index list with a value outside [0, nb_streamlines): a value equal
\* to nb_streamlines, a negative value, any value when there is no streamline.
OutOfRangeSelectFails ==
    [][(last'.op = "select" /\ OutsideRange(trx, last'.laps, last'.indices))
       => (last'.status = "IndexOutOfRange" /\ trx' = trx)]_vars

\* ------------------------------------------------------------------- close
\* the stores a container can be bound to: its own temporary store, or the
\* store load() was given (a directory, an archive, a MemoryStore object)
StoreKinds == {"temp", "dir", "zip", "memory"}

\* __del__(): rmdir() of a TempStore, close() of a ZipStore, clear() of a
\* MemoryStore; any other store is left alone (a debug message)
del(c) ==
    IF c.store \in {"temp", "zip", "memory"}
    THEN [c EXCEPT !.finalized = c.finalized + 1]
    ELSE c

\* close()
close(c) == del(c)

InitClose ==
    /\ trx \in {[c EXCEPT !.store = store] : c \in Loadable, store \in StoreKinds}
    /\ app_trx = Blank
    /\ last = NoOp

\* trx.close()
CloseStep ==
    /\ last.op # "del"
    /\ trx.finalized < MaxCloses
    /\ trx' = close(trx)
    /\ app_trx' = app_trx
    /\ last' = [NoOp EXCEPT !.op = "close"]

\* the container is collected: __del__() runs, nothing is called after it
DestroyStep ==
    /\ last.op # "del"
    /\ trx.finalized < MaxCloses
    /\ trx' = del(trx)
    /\ app_trx' = app_trx
    /\ last' = [NoOp EXCEPT !.op = "del"]

NextClose == CloseStep \/ DestroyStep

SpecClose == InitClose /\ [][NextClose]_vars

\* C15: over any number of close calls and the destruction of a container
\* the finalize action of its store is called once; a close after the first
\* calls nothing.
FinalizedOnce == trx.finalized <= 1

\* ------------------------------------------------------ append, the target
\* C16: append onto a container bound to an archive fails
\* ImmutableBackendError for every source with the target's space
\* attributes, whenever in the container's life it is called.
ZipTargetRefusesAppend ==
    [][(/\ last'.op = "append"
        /\ trx.store = "zip"
        /\ app_trx'.space = trx.space)
       => (last'.status = "ImmutableBackendError" /\ trx' = trx)]_vars

\* the case of C16: streamlines were appended under the default policy to a
\* container with streamlines that was loaded from an archive
ZipTargetRefusesAppendWitness ==
    /\ last.op = "append" /\ last.status = "ImmutableBackendError"
    /\ trx.store = "zip" /\ trx.space = app_trx.space
    /\ trx.nb_streamlines > 0 /\ app_trx.nb_streamlines > 0
    /\ ~last.delete_dpg /\ last.keep_first_dpg

\* the offsets of c do not decrease, none is past the points, and the
\* lengths they give add up to the points
OffsetsInOrder(c) ==
    /\ \A i \in 1..(Len(c.off) - 1) : c.off[i] <= c.off[i + 1]
    /\ \A i \in 1..Len(c.off) : c.off[i] <= c.nb_points
    /\ Len(c.off) > 0 => SeqSum(compute_lengths(c.off, c.nb_points)) = c.nb_points

\* new is old after old.append(src): positions, offsets and the point range
\* of every streamline
AppendedInPlace(old, src, new) ==
    /\ new.pos = old.pos \o src.pos
    /\ new.off = old.off \o Shift(src.off, old.nb_points)
    /\ OffsetsInOrder(new)
    /\ \A i \in 1..Len(old.off) :
          BlockOf(new, new.pos, i - 1) = BlockOf(old, old.pos, i - 1)
    /\ \A i \in 1..Len(src.off) :
          BlockOf(new, new.pos, Len(old.off) + i - 1) = BlockOf(src, src.pos, i - 1)

\* C17: a successful append leaves the target's positions followed by the
\* source's, and the target's offsets followed by the source's offsets plus
\* the target's nb_points before the call; the offsets stay in order and
\* within the points, and every streamline keeps its points.  (The source is
\* read after the call: append does not touch its positions and offsets.)
AppendShiftsOffsets ==
    [][(last'.op = "append" /\ last'.status = "ok")
       => AppendedInPlace(trx, app_trx', trx')]_vars

\* the case of C17: one streamline was appended behind another
AppendShiftsOffsetsWitness ==
    /\ last.op = "append" /\ last.status = "ok"
    /\ app_trx.nb_streamlines = 1 /\ app_trx.off = <<0>>
    /\ trx.nb_streamlines = 2 /\ trx.off = <<0, 1>> /\ trx.nb_points = 2

\* ------------------------------------------------------------------- prune
\* every array of the zarr group f that has rows is in f2 as it was
RowsKept(f, f2) ==
    \A k \in DOMAIN f : Len(f[k]) > 0 => (k \in DOMAIN f2 /\ f2[k] = f[k])

NoEmptyArray(f) == \A k \in DOMAIN f : Len(f[k]) > 0

\* new is old after old.prune_metadata(force)
Pruned(old, new, force) ==
    /\ new.pos = old.pos /\ new.off = old.off
    /\ new.nb_points = old.nb_points /\ new.nb_streamlines = old.nb_streamlines
    /\ IF force
       THEN /\ DOMAIN new.dpp = {} /\ DOMAIN new.dps = {}
            /\ DOMAIN new.grp = {} /\ DOMAIN new.dpg = {}
       ELSE /\ NoEmptyArray(new.dpp) /\ NoEmptyArray(new.dps) /\ NoEmptyArray(new.grp)
            /\ \A g \in DOMAIN new.dpg : NoEmptyArray(new.dpg[g])
            /\ DOMAIN new.dpg \subseteq DOMAIN new.grp
            /\ RowsKept(old.dpp, new.dpp) /\ RowsKept(old.dps, new.dps)
            /\ RowsKept(old.grp, new.grp)
            /\ \A g \in DOMAIN old.dpg \cap DOMAIN new.grp :
                  g \in DOMAIN new.dpg /\ RowsKept(old.dpg[g], new.dpg[g])
            /\ prune_metadata(new, FALSE) = new

\* C18: after prune_metadata() no per-point, per-streamline, group or
\* per-group array without rows is left and no per-group array under a name
\* that is no group; every array with rows (per-group: under a group that
\* exists) is as it was; pruning again changes nothing.  After
\* prune_metadata(force) no such entry is left at all.
PruneLeavesRows ==
    [][last'.op = "prune" => Pruned(trx, trx', last'.force)]_vars

\* the case of C18: a container with a group and a per-group array was
\* pruned without force
PruneLeavesRowsWitness ==
    /\ last.op = "prune" /\ ~last.force
    /\ trx.nb_streamlines = 2
    /\ "g" \in DOMAIN trx.grp /\ "g" \in DOMAIN trx.dpg
    /\ Len(trx.dpg["g"]["m"]) > 0

\* ------------------------------------------------------ append, the source
\* C19: append changes its target only: whether it succeeds or fails, the
\* source's positions, offsets, counts and per-point, per-streamline, group
\* and per-group entries (those without rows too) are after the call what
\* they were before it.
AppendLeavesSource ==
    [][\A c \in Loadable : \A dd, kf \in BOOLEAN :
          AppendStep(c, dd, kf) => app_trx' = c]_vars

\* ------------------------------------------------------------- concatenate
\* for trx in trx_list: new_trx.append(trx), up to the first append that
\* raises
RECURSIVE AppendAll(_, _)
AppendAll(new_trx, trx_list) ==
    IF trx_list = <<>> THEN [status |-> "ok", trx |-> new_trx]
    ELSE LET r == append(new_trx, trx_list[1], FALSE, TRUE)
         IN  IF r.status # "ok" THEN [status |-> r.status, trx |-> r.self]
             ELSE AppendAll(r.self, Tail(trx_list))

\* concatenate(trx_list)
concatenate(trx_list) == AppendAll(InitAs(trx_list[1]), trx_list)

\* trx = concatenate of the first n of [trx, app_trx, c], once; trx and
\* app_trx are two containers loaded before
ConcatenateStep(c, n) ==
    /\ last.op = "init"
    /\ LET r == concatenate(SubSeq(<<trx, app_trx, c>>, 1, n))
       IN  /\ trx' = r.trx
           /\ app_trx' = app_trx
           /\ last' = [NoOp EXCEPT !.op = "concatenate", !.status = r.status]

NextConcat == \E c \in Loadable : \E n \in 1..3 : ConcatenateStep(c, n)

SpecConcat == InitAssoc /\ [][NextConcat]_vars

\* the containers of trx_list hold streamlines, share the space attributes
\* and have the same per-point and per-streamline keys
Concatenable(trx_list) ==
    \A i \in 1..Len(trx_list) :
        /\ trx_list[i].nb_streamlines > 0
        /\ Alike(trx_list[1], trx_list[i])

\* new holds the arrays of trx_list one after the other
Concatenated(trx_list, new) ==
    LET N == Len(trx_list)
    IN  /\ new.nb_streamlines = SeqSum([i \in 1..N |-> trx_list[i].nb_streamlines])
        /\ new.nb_points = SeqSum([i \in 1..N |-> trx_list[i].nb_points])
        /\ new.pos = Flatten([i \in 1..N |-> trx_list[i].pos])
        /\ DOMAIN new.dpp = DOMAIN trx_list[1].dpp
        /\ DOMAIN new.dps = DOMAIN trx_list[1].dps
        /\ \A k \in DOMAIN new.dpp :
              new.dpp[k] = Flatten([i \in 1..N |-> trx_list[i].dpp[k]])
        /\ \A k \in DOMAIN new.dps :
              new.dps[k] = Flatten([i \in 1..N |-> trx_list[i].dps[k]])

\* C20: concatenate of one or more containers that hold streamlines, with
\* equal space attributes and the same per-point and per-streamline keys,
\* succeeds and returns their streamline and point counts added up and their
\* positions, per-point and per-streamline arrays one after the other under
\* the same keys.
ConcatenateJoinsArrays ==
    [][\A c \in Loadable : \A n \in 1..3 :
          (ConcatenateStep(c, n) /\ Concatenable(SubSeq(<<trx, app_trx, c>>, 1, n)))
          => /\ last'.status = "ok"
             /\ Concatenated(SubSeq(<<trx, app_trx, c>>, 1, n), trx')]_vars
====
